---- MODULE Spec2Model ----
(***************************************************************************)
(* Model of the discount-claim endpoint (src/unnamed/part_000): the        *)
(* handler, signMessage, and the key/value store of previous claims the    *)
(* handler reads and writes.  Each request is a process whose steps are    *)
(* the stretches of the async handler between two awaits; the steps of     *)
(* different requests interleave freely.                                   *)
(***************************************************************************)
EXTENDS Integers, Sequences, FiniteSets, TLC

\* Number of requests the model lets run (sequentially or concurrently).
NumReqs == 2

Reqs == 1..NumReqs

\* USERNAMES_SIGNATURE_EXPIRATION_SECONDS, scaled from the default 300 to 2
\* seconds so that expiry happens within a few Tick steps.
expiry == 2

previousClaimsKVPrefix == "username:claims:"

trustedSignerAddress == "0x51"

(***************************************************************************)
(* Strings.  An address is written with 2 hex digits instead of 40; "0xAa" *)
(* is the checksummed spelling of "0xaa".                                  *)
(***************************************************************************)
AddressStrings == {"0xaa", "0xAa", "0xbb", "0xcc"}

ToLowerCase(s) == IF s = "0xAa" THEN "0xaa" ELSE s

ChecksumAddress(s) == IF ToLowerCase(s) = "0xaa" THEN "0xAa" ELSE ToLowerCase(s)

\* viem isAddress (strict): the hex pattern, then all-lowercase or checksummed
IsAddress(s) ==
    /\ s \in AddressStrings
    /\ (ToLowerCase(s) = s \/ ChecksumAddress(s) = s)

\* viem isHex
IsHex(s) == s \in {"0xf8b0", "0x2f34"}

\* req.query.address: undefined, a string[] (repeated parameter) or a string
QueryAddresses ==
    {[kind |-> "undefined", value |-> ""], [kind |-> "array", value |-> ""]}
        \cup {[kind |-> "string", value |-> s] : s \in AddressStrings \cup {"", "not-an-address"}}

Methods == {"GET", "POST"}

(***************************************************************************)
(* signMessage: encodePacked, keccak256, account.signMessage,              *)
(* encodeAbiParameters.                                                    *)
(***************************************************************************)
RECURSIVE ToBytes(_, _)
\* big-endian bytes of n, left-padded to size bytes
ToBytes(n, size) ==
    IF size = 0 THEN <<>> ELSE Append(ToBytes(n \div 256, size - 1), n % 256)

\* the 20 bytes of an address, whatever its spelling
AddressBytes(s) ==
    LET l == ToLowerCase(s)
        b == IF l = "0xaa" THEN 170 ELSE IF l = "0xbb" THEN 187
             ELSE IF l = "0xcc" THEN 204 ELSE 81
    IN  [i \in 1..20 |-> b]

\* the expiry packed as one byte instead of a uint256
EncodePacked_Uint8(prefix, signer, claimer, exp) ==
    prefix \o AddressBytes(signer) \o AddressBytes(claimer) \o ToBytes(exp, 1)

\* encodePacked(['bytes2','address','address','uint256'], [...])
EncodePacked(prefix, signer, claimer, exp) ==
    prefix \o AddressBytes(signer) \o AddressBytes(claimer) \o ToBytes(exp, 32)

\* keccak256, kept symbolic: the hash stands for its pre-image
Keccak256(message) == <<"keccak256", message>>

\* account.signMessage: deterministic ECDSA (RFC 6979) under the account's key
AccountSignMessage(pkey, msgHash) == <<"signature", pkey, msgHash>>

\* encodeAbiParameters('address, uint256, bytes')
EncodeAbiParameters(claimer, exp, signature) ==
    <<AddressBytes(claimer), exp, signature>>

\* the address and expiry fields of an encoded signed message
DecodedAddress(signedMessage) == signedMessage[1]
DecodedExpiry(signedMessage) == signedMessage[2]

IsSignedMessage(m) ==
    /\ Len(m) = 3
    /\ Len(m[1]) = 20
    /\ m[2] \in Nat
    /\ Len(m[3]) = 3

(***************************************************************************)
(* The identity-linking provider: 0xaa and 0xbb are linked, 0xcc is alone. *)
(***************************************************************************)
GetLinkedAddresses(address) ==
    IF ToLowerCase(address) \in {"0xaa", "0xbb"}
    THEN [linkedAddresses |-> {"0xaa", "0xbb"}, idemKey |-> "idem-ab"]
    ELSE [linkedAddresses |-> {"0xcc"}, idemKey |-> "idem-c"]

\* what getAttestations can resolve to: a list of attestations, each with its
\* decodedDataJson (well-formed or not)
AttestationLists == {<<>>, <<"[{\"name\":\"verifiedAccount\"}]">>, <<"{malformed">>}

JsonParses(s) == s # "{malformed"

VARIABLES
    trustedSignerPKey,          \* "" (absent), "malformed" or "0xkey"
    verifiedAccountSchemaId,
    verifiedCb1AccountSchemaId,
    kv,             \* the store: live key -> [value: PreviousClaim, ttl: seconds left]
    pc,             \* where each request's handler is suspended
    req,            \* [method, address] of each request
    res,            \* the responses sent on each request's res object
    calls,          \* the collaborator calls each request has issued, in order
    logged,         \* console.error output of each request
    attestations,   \* <<the list getAttestations resolved to>>, once it has
    attestationsRes,
    linkedAddresses,
    kvKey,
    claim,          \* the PreviousClaim built after signing
    validFor,       \* seconds left of the authorization handed to the request
    packed          \* the message encoder taken alone: its two inputs and outputs

vars == <<trustedSignerPKey, verifiedAccountSchemaId, verifiedCb1AccountSchemaId,
          kv, pc, req, res, calls, logged, attestations, attestationsRes,
          linkedAddresses, kvKey, claim, validFor, packed>>

config == <<trustedSignerPKey, verifiedAccountSchemaId, verifiedCb1AccountSchemaId>>

locals == <<attestations, attestationsRes, linkedAddresses, kvKey, claim>>

NoRequest == [method |-> "", address |-> [kind |-> "undefined", value |-> ""]]

Init ==
    /\ trustedSignerPKey \in {"", "malformed", "0xkey"}
    /\ verifiedAccountSchemaId \in {"0xf8b0", "not-hex"}
    /\ verifiedCb1AccountSchemaId \in {"0x2f34", "not-hex"}
    /\ kv = <<>>
    /\ pc = [r \in Reqs |-> "idle"]
    /\ req = [r \in Reqs |-> NoRequest]
    /\ res = [r \in Reqs |-> <<>>]
    /\ calls = [r \in Reqs |-> <<>>]
    /\ logged = [r \in Reqs |-> <<>>]
    /\ attestations = [r \in Reqs |-> <<>>]
    /\ attestationsRes = [r \in Reqs |-> <<>>]
    /\ linkedAddresses = [r \in Reqs |-> {}]
    /\ kvKey = [r \in Reqs |-> <<>>]
    /\ claim = [r \in Reqs |-> <<>>]
    /\ validFor = [r \in Reqs |-> 0]
    /\ packed = <<>>

\* res.status(s).json(body), then return
Respond(r, response) ==
    /\ res' = [res EXCEPT ![r] = Append(@, response)]
    /\ pc' = [pc EXCEPT ![r] = "done"]

\* the collaborator called a second time
Await_Twice(r, call) ==
    /\ calls' = [calls EXCEPT ![r] = Append(Append(@, call), call)]
    /\ pc' = [pc EXCEPT ![r] = call]

\* the call of a collaborator followed by await
Await(r, call) ==
    /\ calls' = [calls EXCEPT ![r] = Append(@, call)]
    /\ pc' = [pc EXCEPT ![r] = call]

\* the catch block
Catch(r, error) ==
    /\ logged' = [logged EXCEPT ![r] = Append(@, error)]
    /\ Respond(r, [status |-> 500, error |-> "error generating discount message"])

\* signMessage with a signature that is not a function of the claimer alone: a
\* salt taken from the state of the store at signing time
SignMessage_Salted(claimerAddress) ==
    LET message == EncodePacked(<<25, 0>>, trustedSignerAddress, claimerAddress, expiry)
        msgHash == Keccak256(message)
        signature == <<"signature", trustedSignerPKey, msgHash, Cardinality(DOMAIN kv)>>
    IN  EncodeAbiParameters(claimerAddress, expiry, signature)

\* signMessage resolving before the signature is there
SignMessage_Unsigned(claimerAddress) ==
    EncodeAbiParameters(claimerAddress, expiry, <<>>)

\* the signer's address encoded in the place of the claimer's
SignMessage_WrongClaimer(claimerAddress) ==
    LET message == EncodePacked(<<25, 0>>, trustedSignerAddress, claimerAddress, expiry)
        msgHash == Keccak256(message)
        signature == AccountSignMessage(trustedSignerPKey, msgHash)
    IN  EncodeAbiParameters(trustedSignerAddress, expiry, signature)

\* signMessage(claimerAddress): the value it resolves to
SignMessage(claimerAddress) ==
    LET message == EncodePacked(<<25, 0>>, trustedSignerAddress, claimerAddress, expiry)
        msgHash == Keccak256(message)
        signature == AccountSignMessage(trustedSignerPKey, msgHash)
    IN  EncodeAbiParameters(claimerAddress, expiry, signature)

\* the configuration checks made before the address check
Validate_ConfigFirst(method, address) ==
    IF method # "GET"
    THEN <<[status |-> 405, error |-> "method not allowed"]>>
    ELSE IF trustedSignerPKey = ""
    THEN <<[status |-> 500, error |-> "currently unable to sign"]>>
    ELSE IF ~IsHex(verifiedAccountSchemaId)
    THEN <<[status |-> 500, error |-> "invalid verifiedCb1AccountSchemaId"]>>
    ELSE IF ~IsHex(verifiedCb1AccountSchemaId)
    THEN <<[status |-> 500, error |-> "invalid verifiedCb1AccountSchemaId"]>>
    ELSE IF \/ address.kind = "undefined"
            \/ address.value = ""
            \/ address.kind = "array"
            \/ ~IsAddress(address.value)
    THEN <<[status |-> 400, error |-> "valid address is required"]>>
    ELSE <<>>

\* the method not checked
Validate_AnyMethod(method, address) ==
    IF \/ address.kind = "undefined"
       \/ address.value = ""
       \/ address.kind = "array"
       \/ ~IsAddress(address.value)
    THEN <<[status |-> 400, error |-> "valid address is required"]>>
    ELSE IF trustedSignerPKey = ""
    THEN <<[status |-> 500, error |-> "currently unable to sign"]>>
    ELSE IF ~IsHex(verifiedAccountSchemaId)
    THEN <<[status |-> 500, error |-> "invalid verifiedCb1AccountSchemaId"]>>
    ELSE IF ~IsHex(verifiedCb1AccountSchemaId)
    THEN <<[status |-> 500, error |-> "invalid verifiedCb1AccountSchemaId"]>>
    ELSE <<>>

\* handler's checks before the first await: <<the response>> of the check that
\* fails, <<>> when all pass
Validate(method, address) ==
    IF method # "GET"
    THEN <<[status |-> 405, error |-> "method not allowed"]>>
    ELSE IF \/ address.kind = "undefined"
            \/ address.value = ""
            \/ address.kind = "array"
            \/ ~IsAddress(address.value)
    THEN <<[status |-> 400, error |-> "valid address is required"]>>
    ELSE IF trustedSignerPKey = ""
    THEN <<[status |-> 500, error |-> "currently unable to sign"]>>
    ELSE IF ~IsHex(verifiedAccountSchemaId)
    THEN <<[status |-> 500, error |-> "invalid verifiedCb1AccountSchemaId"]>>
    ELSE IF ~IsHex(verifiedCb1AccountSchemaId)
    THEN <<[status |-> 500, error |-> "invalid verifiedCb1AccountSchemaId"]>>
    ELSE <<>>

\* handler, from its entry to the first await
Start(r) ==
    /\ pc[r] = "idle"
    /\ \E method \in Methods, address \in QueryAddresses :
        /\ req' = [req EXCEPT ![r] = [method |-> method, address |-> address]]
        /\ IF Validate(method, address) # <<>>
           THEN Respond(r, Validate(method, address)[1]) /\ UNCHANGED calls
           ELSE Await(r, "getAttestations") /\ UNCHANGED res
    /\ UNCHANGED <<config, packed, kv, logged, locals, validFor>>

\* the empty list not short-circuited
NoAttestations_Never(list) == FALSE

\* every list answered as if it were empty
NoAttestations_Always(list) == TRUE

\* !attestations?.length
NoAttestations(list) == Len(list) = 0

\* getAttestations settles; the handler runs to its next await
GetAttestationsReturn(r) ==
    /\ pc[r] = "getAttestations"
    /\ \/ \* the call rejects: outside the try block, so the handler rejects
          /\ pc' = [pc EXCEPT ![r] = "rejected"]
          /\ UNCHANGED <<res, calls, attestations, attestationsRes>>
       \/ \E list \in AttestationLists :
            /\ attestations' = [attestations EXCEPT ![r] = <<list>>]
            /\ IF NoAttestations(list)
               THEN /\ Respond(r, [status |-> 200, attestations |-> list])
                    /\ UNCHANGED <<calls, attestationsRes>>
               ELSE IF \E i \in 1..Len(list) : ~JsonParses(list[i])
               THEN \* JSON.parse throws, outside the try block
                    /\ pc' = [pc EXCEPT ![r] = "rejected"]
                    /\ UNCHANGED <<res, calls, attestationsRes>>
               ELSE /\ attestationsRes' = [attestationsRes EXCEPT ![r] =
                           [i \in 1..Len(list) |-> "VerifiedAccount"]]
                    /\ Await(r, "getLinkedAddresses")
                    /\ UNCHANGED res
    /\ UNCHANGED <<config, packed, kv, req, logged, linkedAddresses, kvKey, claim, validFor>>

\* idemKey read under a wrong name: every request uses the key of undefined
GetLinkedAddressesReturn_SharedKey(r) ==
    /\ pc[r] = "getLinkedAddresses"
    /\ \/ /\ Catch(r, "getLinkedAddresses failed")
          /\ UNCHANGED <<calls, linkedAddresses, kvKey>>
       \/ LET linked == GetLinkedAddresses(req[r].address.value) IN
          /\ linkedAddresses' = [linkedAddresses EXCEPT ![r] = linked.linkedAddresses]
          /\ kvKey' = [kvKey EXCEPT ![r] = <<previousClaimsKVPrefix, "undefined">>]
          /\ Await(r, "kv.get")
          /\ UNCHANGED <<res, logged>>
    /\ UNCHANGED <<config, packed, kv, req, attestations, attestationsRes, claim, validFor>>

\* getLinkedAddresses settles
GetLinkedAddressesReturn(r) ==
    /\ pc[r] = "getLinkedAddresses"
    /\ \/ /\ Catch(r, "getLinkedAddresses failed")
          /\ UNCHANGED <<calls, linkedAddresses, kvKey>>
       \/ LET linked == GetLinkedAddresses(req[r].address.value) IN
          /\ linkedAddresses' = [linkedAddresses EXCEPT ![r] = linked.linkedAddresses]
          /\ kvKey' = [kvKey EXCEPT ![r] = <<previousClaimsKVPrefix, linked.idemKey>>]
          /\ Await(r, "kv.get")
          /\ UNCHANGED <<res, logged>>
    /\ UNCHANGED <<config, packed, kv, req, attestations, attestationsRes, claim, validFor>>

\* kv.get(key): <<the live value under the key>>, or <<>> for null
KvGet(key) == IF key \in DOMAIN kv THEN <<kv[key].value>> ELSE <<>>

\* the previous claim ignored
HasPreviousClaim_Never(previousClaim) == FALSE

\* if (previousClaim)
HasPreviousClaim(previousClaim) == previousClaim # <<>>

\* the holder of the previous claim not compared
IsConflict_Never(previousClaim, address) == FALSE

\* == written for !=
IsConflict_Inverted(previousClaim, address) == previousClaim.address = address

\* previousClaim.address != address
IsConflict(previousClaim, address) == previousClaim.address # address

\* a replay that renews the time to live of the record it returns
KvGetReturn_Refresh(r) ==
    /\ pc[r] = "kv.get"
    /\ \/ /\ Catch(r, "kv.get failed")
          /\ UNCHANGED <<calls, validFor, kv>>
       \/ LET previousClaim == KvGet(kvKey[r]) IN
          IF HasPreviousClaim(previousClaim)
          THEN IF IsConflict(previousClaim[1], req[r].address.value)
               THEN /\ Respond(r, [status |-> 409, error |-> " "])
                    /\ UNCHANGED <<calls, logged, validFor, kv>>
               ELSE /\ Respond(r, [status |-> 200,
                                   linkedAddresses |-> linkedAddresses[r],
                                   signedMessage |-> previousClaim[1].signedMessage,
                                   attestations |-> attestationsRes[r]])
                    /\ validFor' = [validFor EXCEPT ![r] = kv[kvKey[r]].ttl]
                    /\ kv' = [kv EXCEPT ![kvKey[r]].ttl = expiry]
                    /\ UNCHANGED <<calls, logged>>
          ELSE /\ Await(r, "signMessage")
               /\ UNCHANGED <<res, logged, validFor, kv>>
    /\ UNCHANGED <<config, packed, req, locals>>

\* kv.get settles: the read of the store happens here
KvGetReturn(r) ==
    /\ pc[r] = "kv.get"
    /\ \/ /\ Catch(r, "kv.get failed")
          /\ UNCHANGED <<calls, validFor>>
       \/ LET previousClaim == KvGet(kvKey[r]) IN
          IF HasPreviousClaim(previousClaim)
          THEN IF IsConflict(previousClaim[1], req[r].address.value)
               THEN /\ Respond(r, [status |-> 409, error |-> " "])
                    /\ UNCHANGED <<calls, logged, validFor>>
               ELSE /\ Respond(r, [status |-> 200,
                                   linkedAddresses |-> linkedAddresses[r],
                                   signedMessage |-> previousClaim[1].signedMessage,
                                   attestations |-> attestationsRes[r]])
                    /\ validFor' = [validFor EXCEPT ![r] = kv[kvKey[r]].ttl]
                    /\ UNCHANGED <<calls, logged>>
          ELSE /\ Await(r, "signMessage")
               /\ UNCHANGED <<res, logged, validFor>>
    /\ UNCHANGED <<config, packed, kv, req, locals>>

\* signMessage settles
SignMessageReturn(r) ==
    /\ pc[r] = "signMessage"
    /\ IF trustedSignerPKey = "malformed"
       THEN \* privateKeyToAccount throws
            /\ Catch(r, "signMessage failed")
            /\ UNCHANGED <<calls, claim>>
       ELSE /\ claim' = [claim EXCEPT ![r] =
                    <<[address |-> req[r].address.value,
                       signedMessage |-> SignMessage(req[r].address.value)]>>]
            /\ Await(r, "kv.set")
            /\ UNCHANGED <<res, logged>>
    /\ UNCHANGED <<config, packed, kv, req, attestations, attestationsRes, linkedAddresses,
                   kvKey, validFor>>

\* a time to live other than the expiry that was signed
SetOptions_Longer == [ex |-> expiry + 1]

\* the options of kv.set: { ex: expiry }
SetOptions == [ex |-> expiry]

\* kv.set(key, value, options): the store after the write
KvSet(key, value, options) ==
    [k \in DOMAIN kv \cup {key} |->
        IF k = key THEN [value |-> value, ttl |-> options.ex] ELSE kv[k]]

\* kv.set settles: the write of the store happens here
KvSetReturn(r) ==
    /\ pc[r] = "kv.set"
    /\ \/ /\ Catch(r, "kv.set failed")
          /\ UNCHANGED <<kv, validFor>>
       \/ /\ kv' = KvSet(kvKey[r], claim[r][1], SetOptions)
          /\ Respond(r, [status |-> 200,
                         linkedAddresses |-> linkedAddresses[r],
                         signedMessage |-> claim[r][1].signedMessage,
                         attestations |-> attestationsRes[r]])
          /\ validFor' = [validFor EXCEPT ![r] = expiry]
          /\ UNCHANGED logged
    /\ UNCHANGED <<config, packed, req, calls, locals>>

\* one second passes: the store drops the keys whose time to live has elapsed
Tick ==
    /\ DOMAIN kv # {} \/ \E r \in Reqs : validFor[r] > 0
    /\ kv' = [k \in {x \in DOMAIN kv : kv[x].ttl > 1} |->
                [kv[k] EXCEPT !.ttl = @ - 1]]
    /\ validFor' = [r \in Reqs |-> IF validFor[r] > 0 THEN validFor[r] - 1 ELSE 0]
    /\ UNCHANGED <<config, packed, pc, req, res, calls, logged, locals>>

Next ==
    \/ \E r \in Reqs : Start(r)
    \/ \E r \in Reqs : GetAttestationsReturn(r)
    \/ \E r \in Reqs : GetLinkedAddressesReturn(r)
    \/ \E r \in Reqs : KvGetReturn(r)
    \/ \E r \in Reqs : SignMessageReturn(r)
    \/ \E r \in Reqs : KvSetReturn(r)
    \/ Tick

Spec == Init /\ [][Next]_vars

(***************************************************************************)
(* The message encoder of signMessage taken alone: two (signer, claimer,   *)
(* expiry) tuples are drawn, packed and hashed.                            *)
(***************************************************************************)
PackedSigners == {"0x51", "0xcc"}
PackedClaimers == {"0xaa", "0xAa", "0xbb", "0xcc"}
PackedExpiries == {0, 2, 44, 300}

PackedTuples ==
    [signer : PackedSigners, claimer : PackedClaimers, expiry : PackedExpiries]

\* lines 47-53 of signMessage: the packed message and its hash
PackedMessage(t) ==
    LET message == EncodePacked(<<25, 0>>, t.signer, t.claimer, t.expiry)
    IN  [message |-> message, msgHash |-> Keccak256(message)]

InitPacking ==
    /\ trustedSignerPKey = "0xkey"
    /\ verifiedAccountSchemaId = "0xf8b0"
    /\ verifiedCb1AccountSchemaId = "0x2f34"
    /\ kv = <<>>
    /\ pc = [r \in Reqs |-> "idle"]
    /\ req = [r \in Reqs |-> NoRequest]
    /\ res = [r \in Reqs |-> <<>>]
    /\ calls = [r \in Reqs |-> <<>>]
    /\ logged = [r \in Reqs |-> <<>>]
    /\ attestations = [r \in Reqs |-> <<>>]
    /\ attestationsRes = [r \in Reqs |-> <<>>]
    /\ linkedAddresses = [r \in Reqs |-> {}]
    /\ kvKey = [r \in Reqs |-> <<>>]
    /\ claim = [r \in Reqs |-> <<>>]
    /\ validFor = [r \in Reqs |-> 0]
    /\ \E t1, t2 \in PackedTuples : packed = [in |-> <<t1, t2>>, out |-> <<>>]

Pack ==
    /\ packed.out = <<>>
    /\ packed' = [packed EXCEPT !.out = <<PackedMessage(packed.in[1]),
                                          PackedMessage(packed.in[2])>>]
    /\ UNCHANGED <<config, kv, pc, req, res, calls, logged, locals, validFor>>

NextPacking == Pack

SpecPacking == InitPacking /\ [][NextPacking]_vars

(***************************************************************************)
(* Vocabulary of the properties.                                           *)
(***************************************************************************)
\* the 20-byte address a request was made for, whatever its spelling
Claimer(r) == ToLowerCase(req[r].address.value)

Responded(r, status) ==
    pc[r] = "done" /\ Len(res[r]) = 1 /\ res[r][1].status = status

\* the request was answered 200 with a signedMessage
Authorized(r) == Responded(r, 200) /\ "signedMessage" \in DOMAIN res[r][1]

HitPath == <<"getAttestations", "getLinkedAddresses", "kv.get">>
MissPath == HitPath \o <<"signMessage", "kv.set">>

\* the step is the settling of r's pending call, without an error caught
Settles(r, call) == pc[r] = call /\ pc'[r] # call /\ logged'[r] = logged[r]
\* the step is the settling of r's pending call with an error
Fails(r, call) == pc[r] = call /\ pc'[r] # call /\ logged'[r] # logged[r]

(***************************************************************************)
(* C1: within one validity window, no two requests made for different      *)
(* addresses of the same identity group (equal idempotency keys) are both  *)
(* answered 200 with a signedMessage.                                      *)
(***************************************************************************)
C1_AtMostOneValidClaimPerGroup ==
    \A r1, r2 \in Reqs :
        (/\ Authorized(r1) /\ Authorized(r2)
         /\ kvKey[r1] = kvKey[r2]
         /\ Claimer(r1) # Claimer(r2))
        => ~(validFor[r1] > 0 /\ validFor[r2] > 0)

(***************************************************************************)
(* C2: while a record is live under a key, no step replaces it with a      *)
(* record that holds a different address.                                  *)
(***************************************************************************)
C2_RecordAddressImmutable ==
    [][\A k \in DOMAIN kv \cap DOMAIN kv' :
         ToLowerCase(kv'[k].value.address) = ToLowerCase(kv[k].value.address)]_vars

(***************************************************************************)
(* C3: a request whose lookup finds a live record held by another address  *)
(* is answered 409 with no signedMessage, signs nothing, writes nothing    *)
(* and leaves the store as it is.                                          *)
(***************************************************************************)
C3_ConflictStep ==
    \A r \in Reqs :
        (/\ Settles(r, "kv.get")
         /\ kvKey[r] \in DOMAIN kv
         /\ ToLowerCase(kv[kvKey[r]].value.address) # Claimer(r))
        => /\ pc'[r] = "done"
           /\ res'[r] = <<[status |-> 409, error |-> " "]>>
           /\ calls'[r] = HitPath
           /\ kv' = kv

C3_ConflictAnswered ==
    \A r \in Reqs :
        Responded(r, 409) =>
            /\ "signedMessage" \notin DOMAIN res[r][1]
            /\ calls[r] = HitPath
            /\ claim[r] = <<>>

C3_ConflictDetection == [][C3_ConflictStep]_vars /\ []C3_ConflictAnswered

\* A claimed first and got its authorization, B of the same group was then
\* answered 409, and the store still holds A's record
C3_Witness ==
    \E a, b \in Reqs :
        /\ Authorized(a) /\ calls[a] = MissPath
        /\ Responded(b, 409)
        /\ Claimer(a) # Claimer(b)
        /\ kvKey[a] = kvKey[b]
        /\ kvKey[b] \in DOMAIN kv
        /\ kv[kvKey[b]].value = [address |-> req[a].address.value,
                                  signedMessage |-> res[a][1].signedMessage]

(***************************************************************************)
(* C4: two requests for the same address, one after the other, within the  *)
(* time to live: the first takes the miss path (sign, then write), the     *)
(* second is a cache hit answered 200 with the stored signedMessage,       *)
(* without signing and without writing; both carry the same signedMessage. *)
(***************************************************************************)
C4_ReplayStep ==
    \A r \in Reqs :
        (/\ Settles(r, "kv.get")
         /\ kvKey[r] \in DOMAIN kv
         /\ kv[kvKey[r]].value.address = req[r].address.value)
        => /\ pc'[r] = "done"
           /\ res'[r] = <<[status |-> 200,
                           linkedAddresses |-> linkedAddresses[r],
                           signedMessage |-> kv[kvKey[r]].value.signedMessage,
                           attestations |-> attestationsRes[r]]>>
           /\ calls'[r] = HitPath
           /\ kv' = kv

C4_FirstClaimStep ==
    \A r \in Reqs :
        /\ (Settles(r, "kv.get") /\ kvKey[r] \notin DOMAIN kv)
            => pc'[r] = "signMessage"
        /\ Settles(r, "kv.set")
            => /\ Authorized(r)'
               /\ kv'[kvKey[r]].value = [address |-> req[r].address.value,
                                          signedMessage |-> res'[r][1].signedMessage]

C4_SameMessage ==
    \A r1, r2 \in Reqs :
        (/\ Authorized(r1) /\ Authorized(r2)
         /\ req[r1].address.value = req[r2].address.value)
        => res[r1][1].signedMessage = res[r2][1].signedMessage

C4_Idempotence ==
    [][C4_ReplayStep /\ C4_FirstClaimStep]_vars /\ []C4_SameMessage

\* the first request signed and wrote, the second was a replay of the record
\* while it was live
C4_Witness ==
    \E r1, r2 \in Reqs :
        /\ Authorized(r1) /\ calls[r1] = MissPath
        /\ Authorized(r2) /\ calls[r2] = HitPath
        /\ req[r1].address.value = req[r2].address.value
        /\ res[r1][1].signedMessage = res[r2][1].signedMessage
        /\ kvKey[r1] \in DOMAIN kv

(***************************************************************************)
(* C5: two concurrent requests for the same address that both miss, sign   *)
(* and write: both responses carry the same signedMessage, and each write  *)
(* leaves under the key the record the other one wrote.                    *)
(***************************************************************************)
C5_SameResponse ==
    \A r1, r2 \in Reqs :
        (/\ Authorized(r1) /\ calls[r1] = MissPath
         /\ Authorized(r2) /\ calls[r2] = MissPath
         /\ Claimer(r1) = Claimer(r2))
        => res[r1][1].signedMessage = res[r2][1].signedMessage

C5_DuplicateWriteStep ==
    \A r \in Reqs :
        (/\ Settles(r, "kv.set")
         /\ kvKey[r] \in DOMAIN kv
         /\ ToLowerCase(kv[kvKey[r]].value.address) = Claimer(r))
        => /\ ToLowerCase(kv'[kvKey[r]].value.address) = Claimer(r)
           /\ kv'[kvKey[r]].value.signedMessage = kv[kvKey[r]].value.signedMessage
           /\ kv'[kvKey[r]].value.signedMessage = res'[r][1].signedMessage

C5_DuplicateWriteTolerance ==
    []C5_SameResponse /\ [][C5_DuplicateWriteStep]_vars

\* both requests missed, signed and wrote within the same validity window
C5_Witness ==
    \E r1, r2 \in Reqs :
        /\ r1 # r2
        /\ Authorized(r1) /\ calls[r1] = MissPath
        /\ Authorized(r2) /\ calls[r2] = MissPath
        /\ Claimer(r1) = Claimer(r2)
        /\ validFor[r1] > 0 /\ validFor[r2] > 0
        /\ kvKey[r1] \in DOMAIN kv

(***************************************************************************)
(* C6: a request whose address has no attestation is answered 200 with the *)
(* empty attestation list and nothing else, after the attestation query    *)
(* alone: no linked-address resolution, no store read, no signing, no      *)
(* store write, whatever the store holds.                                  *)
(***************************************************************************)
C6_IneligibleAnswered ==
    \A r \in Reqs :
        attestations[r] = << <<>> >> =>
            /\ pc[r] = "done"
            /\ res[r] = <<[status |-> 200, attestations |-> <<>>]>>
            /\ calls[r] = <<"getAttestations">>
            /\ claim[r] = <<>>

C6_IneligibleStep ==
    \A r \in Reqs :
        (attestations[r] = <<>> /\ attestations'[r] = << <<>> >>) => kv' = kv

C7_EveryFailureAnswered ==
    \A r \in Reqs :
        pc[r] \in {"done", "rejected"} =>
            /\ Len(res[r]) = 1
            /\ (pc[r] = "rejected" \/ logged[r] # <<>>) => res[r][1].status = 500

(***************************************************************************)
(* C8: kv.set is called only with a complete signed message returned by    *)
(* signMessage for the same request; a failed signing is answered 500 and  *)
(* leaves the store as it is; every record of the store holds an address   *)
(* and a complete signedMessage.                                           *)
(***************************************************************************)
C8_RecordsComplete ==
    /\ \A k \in DOMAIN kv :
            /\ IsAddress(kv[k].value.address)
            /\ IsSignedMessage(kv[k].value.signedMessage)
    /\ \A r \in Reqs :
            (\E i \in 1..Len(calls[r]) : calls[r][i] = "kv.set") =>
                /\ calls[r] = MissPath
                /\ claim[r] # <<>>
                /\ claim[r][1].address = req[r].address.value
                /\ IsSignedMessage(claim[r][1].signedMessage)

C8_SignFailureStep ==
    \A r \in Reqs :
        Fails(r, "signMessage") =>
            /\ Responded(r, 500)'
            /\ calls'[r] = calls[r]
            /\ kv' = kv

C8_NoHalfWrittenEntry == []C8_RecordsComplete /\ [][C8_SignFailureStep]_vars

\* with a malformed signer key, a request got as far as signing and was
\* answered 500, the store being empty
C8_Witness ==
    \E r \in Reqs :
        /\ Responded(r, 500)
        /\ calls[r] = HitPath \o <<"signMessage">>
        /\ logged[r] # <<>>
        /\ DOMAIN kv = {}

(***************************************************************************)
(* C9: a record is written with a time to live equal to the expiry encoded *)
(* in its signed message; a lookup returns it while time to live is left   *)
(* and finds the key absent once it has elapsed; the request that finds it *)
(* absent takes the miss path, and its write creates a new record and      *)
(* answers 200 with a signedMessage.                                       *)
(***************************************************************************)
C9_LiveWithinExpiry ==
    \A k \in DOMAIN kv :
        kv[k].ttl \in 1..DecodedExpiry(kv[k].value.signedMessage)

C9_WriteStep ==
    \A r \in Reqs :
        Settles(r, "kv.set") =>
            /\ kvKey[r] \in DOMAIN kv'
            /\ kv'[kvKey[r]].ttl = DecodedExpiry(kv'[kvKey[r]].value.signedMessage)
            /\ kv'[kvKey[r]].ttl = DecodedExpiry(res'[r][1].signedMessage)
            /\ Authorized(r)'

C9_SecondStep ==
    (pc' = pc /\ kv' # kv) =>
        \A k \in DOMAIN kv :
            IF kv[k].ttl = 1
            THEN k \notin DOMAIN kv'
            ELSE k \in DOMAIN kv' /\ kv'[k] = [kv[k] EXCEPT !.ttl = @ - 1]

C9_LookupStep ==
    \A r \in Reqs :
        Settles(r, "kv.get") =>
            IF kvKey[r] \in DOMAIN kv
            THEN pc'[r] = "done" /\ res'[r][1].status \in {200, 409}
            ELSE pc'[r] = "signMessage" /\ res'[r] = <<>>

C9_Expiry ==
    /\ []C9_LiveWithinExpiry
    /\ [][C9_WriteStep /\ C9_SecondStep /\ C9_LookupStep]_vars

\* the authorization of r1 has run out and its record is gone; r2, another
\* address of the group, has just claimed and holds the new record
C9_Witness ==
    \E r1, r2 \in Reqs :
        /\ Authorized(r1) /\ calls[r1] = MissPath /\ validFor[r1] = 0
        /\ Authorized(r2) /\ calls[r2] = MissPath /\ validFor[r2] = expiry
        /\ kvKey[r1] = kvKey[r2]
        /\ Claimer(r1) # Claimer(r2)
        /\ kvKey[r2] \in DOMAIN kv
        /\ kv[kvKey[r2]] = [value |-> [address |-> req[r2].address.value,
                                       signedMessage |-> res[r2][1].signedMessage],
                            ttl |-> expiry]

(***************************************************************************)
(* C10: a GET request with a missing, array-valued or invalid address is   *)
(* answered 400; otherwise a missing signer key or a non-hex schema        *)
(* identifier is answered 500; in both cases without any collaborator call *)
(* and with the store untouched; the address check comes first.            *)
(***************************************************************************)
C10_Answered ==
    \A r \in Reqs :
        (pc[r] # "idle" /\ req[r].method = "GET") =>
            IF req[r].address.kind # "string" \/ req[r].address.value \notin AddressStrings
            THEN Responded(r, 400) /\ calls[r] = <<>>
            ELSE IF \/ trustedSignerPKey = ""
                    \/ verifiedAccountSchemaId = "not-hex"
                    \/ verifiedCb1AccountSchemaId = "not-hex"
            THEN Responded(r, 500) /\ calls[r] = <<>> /\ logged[r] = <<>>
            ELSE calls[r] # <<>> /\ calls[r][1] = "getAttestations"

C10_ValidationStep ==
    \A r \in Reqs : (pc[r] = "idle" /\ pc'[r] = "done") => kv' = kv

C10_ValidationPrecedence == []C10_Answered /\ [][C10_ValidationStep]_vars

\* an invalid address and a missing signer key together: answered 400
C10_Witness ==
    \E r \in Reqs :
        /\ trustedSignerPKey = ""
        /\ req[r].method = "GET"
        /\ req[r].address = [kind |-> "string", value |-> "not-an-address"]
        /\ Responded(r, 400)
        /\ calls[r] = <<>>

(***************************************************************************)
(* C11: a request whose method is not GET is answered 405 and does         *)
(* nothing else: no collaborator call, nothing logged, the store as it     *)
(* was, whatever its address parameter and the configuration.              *)
(***************************************************************************)
C11_Rejected ==
    \A r \in Reqs :
        (pc[r] # "idle" /\ req[r].method # "GET") =>
            /\ pc[r] = "done"
            /\ res[r] = <<[status |-> 405, error |-> "method not allowed"]>>
            /\ calls[r] = <<>>
            /\ logged[r] = <<>>
            /\ attestations[r] = <<>>
            /\ kvKey[r] = <<>>
            /\ claim[r] = <<>>

C11_RejectionStep ==
    \A r \in Reqs :
        (pc[r] = "idle" /\ pc'[r] # "idle" /\ req'[r].method # "GET") =>
            /\ kv' = kv
            /\ \A o \in Reqs \ {r} : pc'[o] = pc[o] /\ res'[o] = res[o]

C11_MethodRejection == []C11_Rejected /\ [][C11_RejectionStep]_vars

\* a POST for a valid address under a valid configuration, with a live record
\* in the store: answered 405
C11_Witness ==
    \E r \in Reqs :
        /\ req[r].method = "POST"
        /\ req[r].address = [kind |-> "string", value |-> "0xbb"]
        /\ trustedSignerPKey = "0xkey"
        /\ IsHex(verifiedAccountSchemaId) /\ IsHex(verifiedCb1AccountSchemaId)
        /\ DOMAIN kv # {}
        /\ Responded(r, 405)

(***************************************************************************)
(* C12: every 200 response has attestations; signedMessage and             *)
(* linkedAddresses come together or not at all, and exactly when the       *)
(* attestation list is not empty; no other response has a signedMessage.   *)
(***************************************************************************)
C12_ResponseShape ==
    \A r \in Reqs : \A i \in 1..Len(res[r]) :
        LET body == res[r][i] IN
        IF body.status = 200
        THEN /\ "attestations" \in DOMAIN body
             /\ "signedMessage" \in DOMAIN body <=> "linkedAddresses" \in DOMAIN body
             /\ "signedMessage" \in DOMAIN body <=> Len(body.attestations) > 0
        ELSE /\ body.status \in {400, 405, 409, 500}
             /\ "signedMessage" \notin DOMAIN body
             /\ "linkedAddresses" \notin DOMAIN body

\* the two shapes of a 200 response next to each other
C12_Witness ==
    \E r1, r2 \in Reqs :
        /\ Authorized(r1) /\ Len(res[r1][1].attestations) > 0
        /\ Responded(r2, 200) /\ DOMAIN res[r2][1] = {"status", "attestations"}
        /\ res[r2][1].attestations = <<>>

(***************************************************************************)
(* C13: the packed message (prefix 0x1900, signer, claimer, expiry as      *)
(* uint256) and its hash are the same for equal tuples and differ for      *)
(* tuples that differ in the signer, the claimer or the expiry; every      *)
(* packed message is 2 + 20 + 20 + 32 bytes long.                          *)
(***************************************************************************)
SameTuple(t1, t2) ==
    /\ ToLowerCase(t1.signer) = ToLowerCase(t2.signer)
    /\ ToLowerCase(t1.claimer) = ToLowerCase(t2.claimer)
    /\ t1.expiry = t2.expiry

C13_EncodingDeterminedByTuple ==
    packed.out # <<>> =>
        /\ SameTuple(packed.in[1], packed.in[2])
            <=> packed.out[1].message = packed.out[2].message
        /\ SameTuple(packed.in[1], packed.in[2])
            <=> packed.out[1].msgHash = packed.out[2].msgHash
        /\ Len(packed.out[1].message) = 74
        /\ SubSeq(packed.out[1].message, 1, 2) = <<25, 0>>

\* two tuples that differ in the expiry alone, by a multiple of 256, packed
\* into different messages
C13_Witness ==
    /\ packed.out # <<>>
    /\ packed.in[1].signer = packed.in[2].signer
    /\ packed.in[1].claimer = packed.in[2].claimer
    /\ packed.in[1].expiry = 44 /\ packed.in[2].expiry = 300
    /\ packed.out[1].message # packed.out[2].message

(***************************************************************************)
(* C14: within a request the collaborator calls happen only in the order   *)
(* attestation fetch, linked-address resolution, store read, sign, store   *)
(* write, each at most once; signing is reached only from a store read     *)
(* that found the key absent, and the store is written only by the         *)
(* settling of the kv.set of a request that went through all five.         *)
(***************************************************************************)
C14_InOrder ==
    \A r \in Reqs :
        /\ \E n \in 0..Len(MissPath) : calls[r] = SubSeq(MissPath, 1, n)
        /\ pc[r] \notin {"idle", "done", "rejected"}
            => calls[r] # <<>> /\ calls[r][Len(calls[r])] = pc[r]
        /\ pc[r] = "idle" => calls[r] = <<>>

C14_OrderStep ==
    /\ \A r \in Reqs :
        /\ calls'[r] # calls[r]
            => /\ Len(calls[r]) < Len(MissPath)
               /\ calls'[r] = Append(calls[r], MissPath[Len(calls[r]) + 1])
               /\ pc'[r] = MissPath[Len(calls[r]) + 1]
        /\ (pc'[r] = "signMessage" /\ pc[r] # "signMessage")
            => pc[r] = "kv.get" /\ kvKey[r] \notin DOMAIN kv
        /\ (pc'[r] = "kv.set" /\ pc[r] # "kv.set") => pc[r] = "signMessage"
    /\ (\E k \in DOMAIN kv' : k \notin DOMAIN kv \/ kv'[k].value # kv[k].value
                                                  \/ kv'[k].ttl > kv[k].ttl)
        => \E r \in Reqs : Settles(r, "kv.set") /\ calls[r] = MissPath

C14_StepOrdering == []C14_InOrder /\ [][C14_OrderStep]_vars

\* a request that made the five calls and was answered
C14_Witness ==
    \E r \in Reqs :
        /\ calls[r] = MissPath
        /\ Authorized(r)
        /\ kvKey[r] \in DOMAIN kv

(***************************************************************************)
(* C15: a lookup that finds a live record is answered 409 exactly when the *)
(* record's address and the request's address are different 20-byte        *)
(* addresses; another spelling of the record's address is a replay,        *)
(* answered 200 with the stored signedMessage.                             *)
(***************************************************************************)
C15_ConflictOnlyForAnotherAddress ==
    [][\A r \in Reqs :
        (Settles(r, "kv.get") /\ kvKey[r] \in DOMAIN kv) =>
            IF ToLowerCase(kv[kvKey[r]].value.address) = Claimer(r)
            THEN /\ res'[r][1].status = 200
                 /\ res'[r][1].signedMessage = kv[kvKey[r]].value.signedMessage
            ELSE res'[r][1].status = 409]_vars

(***************************************************************************)
(* C16: every 200 response with a signedMessage carries the authorization  *)
(* of the address the request was made for: the claimer encoded in the     *)
(* signedMessage is the request's address.                                 *)
(***************************************************************************)
C16_OwnAuthorization ==
    \A r \in Reqs :
        Authorized(r) =>
            DecodedAddress(res[r][1].signedMessage) = AddressBytes(req[r].address.value)

\* a replay: the request was handed the stored message, and it is its own
C16_Witness ==
    \E r1, r2 \in Reqs :
        /\ r1 # r2
        /\ Authorized(r1) /\ calls[r1] = MissPath
        /\ Authorized(r2) /\ calls[r2] = HitPath
        /\ kvKey[r1] = kvKey[r2]
        /\ DecodedAddress(res[r2][1].signedMessage) = AddressBytes(req[r2].address.value)

(***************************************************************************)
(* C17: every live record is self-consistent: its signedMessage encodes    *)
(* the record's address and the configured expiry, and it is stored under  *)
(* the idempotency key of that address.                                    *)
(***************************************************************************)
C17_RecordsConsistent ==
    \A k \in DOMAIN kv :
        LET record == kv[k].value IN
        /\ DecodedAddress(record.signedMessage) = AddressBytes(record.address)
        /\ DecodedExpiry(record.signedMessage) = expiry
        /\ k = <<previousClaimsKVPrefix, GetLinkedAddresses(record.address).idemKey>>

\* a live record under each of the two idempotency keys
C17_Witness ==
    /\ Cardinality(DOMAIN kv) = 2
    /\ \E k \in DOMAIN kv : kv[k].value.address = "0xcc"
    /\ \E k \in DOMAIN kv : kv[k].value.address = "0xAa"

(***************************************************************************)
(* C18: a request that finds a live record, replay or conflict, leaves the *)
(* record and its remaining time to live as they are; a record written by  *)
(* the only writer of its key has exactly the time left that has not yet   *)
(* passed of the expiry window since the write, and is gone when the       *)
(* window has passed.                                                      *)
(***************************************************************************)
C18_HitStep ==
    \A r \in Reqs :
        (Settles(r, "kv.get") /\ kvKey[r] \in DOMAIN kv) =>
            /\ res'[r][1].status \in {200, 409}
            /\ DOMAIN kv' = DOMAIN kv
            /\ kv'[kvKey[r]].value = kv[kvKey[r]].value
            /\ kv'[kvKey[r]].ttl = kv[kvKey[r]].ttl

OnlyWriter(r) ==
    /\ Authorized(r) /\ calls[r] = MissPath
    /\ \A o \in Reqs \ {r} :
        kvKey[o] = kvKey[r] => \A i \in 1..Len(calls[o]) : calls[o][i] # "kv.set"

C18_Lifetime ==
    \A r \in Reqs :
        OnlyWriter(r) =>
            IF validFor[r] > 0
            THEN /\ kvKey[r] \in DOMAIN kv
                 /\ kv[kvKey[r]].ttl = validFor[r]
                 /\ kv[kvKey[r]].value = claim[r][1]
            ELSE kvKey[r] \notin DOMAIN kv

C18_NoLifetimeExtension == [][C18_HitStep]_vars /\ []C18_Lifetime

\* one second after the write, the record was hit by another request and has
\* one second left
C18_Witness ==
    \E r, o \in Reqs :
        /\ r # o
        /\ OnlyWriter(r) /\ validFor[r] = 1
        /\ kvKey[o] = kvKey[r] /\ calls[o] = HitPath
        /\ Authorized(o) /\ validFor[o] = 1
        /\ kv[kvKey[r]].ttl = 1

(***************************************************************************)
(* C19: a request uses the key of the idempotency key resolved for its own *)
(* address and no other: every other entry of the store is unchanged by    *)
(* its steps, and it is answered 409 only for a record held by an address  *)
(* of its own identity group.                                              *)
(***************************************************************************)
OwnKey(r) ==
    <<previousClaimsKVPrefix, GetLinkedAddresses(req[r].address.value).idemKey>>

C19_OwnKey == \A r \in Reqs : kvKey[r] # <<>> => kvKey[r] = OwnKey(r)

C19_IsolationStep ==
    \A r \in Reqs :
        pc'[r] # pc[r] =>
            /\ \A k \in DOMAIN kv \cup DOMAIN kv' :
                k # kvKey[r] =>
                    k \in DOMAIN kv /\ k \in DOMAIN kv' /\ kv'[k] = kv[k]
            /\ (pc'[r] = "done" /\ res'[r][1].status = 409) =>
                /\ OwnKey(r) \in DOMAIN kv
                /\ GetLinkedAddresses(kv[OwnKey(r)].value.address).idemKey
                       = GetLinkedAddresses(req[r].address.value).idemKey

C19_KeyIsolation == []C19_OwnKey /\ [][C19_IsolationStep]_vars

\* requests of the two identity groups, each holding its own live record
C19_Witness ==
    \E r1, r2 \in Reqs :
        /\ Authorized(r1) /\ calls[r1] = MissPath /\ validFor[r1] > 0
        /\ Authorized(r2) /\ calls[r2] = MissPath /\ validFor[r2] > 0
        /\ kvKey[r1] # kvKey[r2]
        /\ kv[kvKey[r1]].value.address = req[r1].address.value
        /\ kv[kvKey[r2]].value.address = req[r2].address.value

====
